---- MODULE Spec2Model ----
(***************************************************************************)
(* A model of weewx's CheetahGenerator (bin/weewx/cheetahgenerator.py):    *)
(* run / setup / initExtensions / generate / _getSearchList / teardown,    *)
(* over a small file system with inodes, a wall clock and a data source.   *)
(***************************************************************************)
EXTENDS Integers, Sequences, FiniteSets, TLC

\* ------------------------------------------------------------------ bounds
\* Number of runs one generator object performs, one after the other.
MaxRuns == 2
\* The wall clock (time.time()) runs from 0 to MaxClock.
MaxClock == 1
\* Number of failures (raised exceptions) injected in one behaviour.
MaxFaults == 1
\* Largest data timestamp.
MaxTs == 6
\* Number of buffer flushes needed to write one rendered text.
NChunks == 2
\* The model's calendar: seconds per month and months per year.
MonthLen == 2
MonthsPerYear == 2

\* A timestamp that is None (or 0): "if not start_ts", "if gen_ts".
NoStamp == 0

\* ---------------------------------------------------------------- helpers
Range(s) == {s[i] : i \in DOMAIN s}

RECURSIVE SumSeq(_)
SumSeq(s) == IF s = <<>> THEN 0 ELSE s[1] + SumSeq(Tail(s))

\* dict.merge / ConfigObj.merge on scalars: the keys of b win.
Merge(a, b) ==
    [k \in (DOMAIN a) \cup (DOMAIN b) |-> IF k \in DOMAIN b THEN b[k] ELSE a[k]]

\* --------------------------------------------------------------- calendar
\* time.localtime(ts)[0] and [1]: the civil year and month of a timestamp.
MonthIndex(ts) == ts \div MonthLen
LocalYear(ts) == 2000 + (MonthIndex(ts) \div MonthsPerYear)
LocalMonth(ts) == (MonthIndex(ts) % MonthsPerYear) + 1

\* weeutil.weeutil.TimeSpan(start, stop)
TimeSpan(start, stop) == [start |-> start, stop |-> stop]

\* TimeSpan.includesArchiveTime: the window includes the timestamp
\* (inclusive start, exclusive stop).
includesArchiveTime(span, ts) == span.start <= ts /\ ts < span.stop

\* weeutil.weeutil.genMonthSpans: one full calendar month per month from the
\* month containing start through the month containing stop; empty when
\* start > stop.
genMonthSpans(start, stop) ==
    IF start > stop THEN <<>>
    ELSE [i \in 1..(MonthIndex(stop) - MonthIndex(start) + 1) |->
            TimeSpan((MonthIndex(start) + i - 1) * MonthLen,
                     (MonthIndex(start) + i) * MonthLen)]

YearIndex(ts) == MonthIndex(ts) \div MonthsPerYear
YearLen == MonthLen * MonthsPerYear

\* weeutil.weeutil.genYearSpans: the same, per calendar year.
genYearSpans(start, stop) ==
    IF start > stop THEN <<>>
    ELSE [i \in 1..(YearIndex(stop) - YearIndex(start) + 1) |->
            TimeSpan((YearIndex(start) + i - 1) * YearLen,
                     (YearIndex(start) + i) * YearLen)]

\* CheetahGenerator.generator_dict
generator_dict == {"SummaryByMonth", "SummaryByYear"}

\* (mutant) a mode without a generator function is generated by month
spangenNoneByMonth(summarize_by, start_ts, stop_ts) ==
    IF summarize_by = "SummaryByYear" THEN genYearSpans(start_ts, stop_ts)
    ELSE genMonthSpans(start_ts, stop_ts)

\* _spangen(start_ts, stop_ts): the generator function chosen for the mode;
\* any other mode gives the single span of the lambda.
spangen(summarize_by, start_ts, stop_ts) ==
    IF summarize_by = "SummaryByMonth" THEN genMonthSpans(start_ts, stop_ts)
    ELSE IF summarize_by = "SummaryByYear" THEN genYearSpans(start_ts, stop_ts)
    ELSE << TimeSpan(start_ts, stop_ts) >>


\* ---------------------------------------------------------- configuration
\* A ConfigObj section: its name, its own scalars (a function from the keys
\* it declares to their values) and its subsections, in configuration order.
Sec(id, name, scalars, sections) ==
    [id |-> id, name |-> name, scalars |-> scalars, sections |-> sections]

\* Template file names: the base name and whether it holds YYYY and MM.
Tmpl(base, hasY, hasM) == [base |-> base, Y |-> hasY, M |-> hasM]

\* The skin's [CheetahGenerator] sections the model is run on.
Configs == <<
    \* the example of the module's docstring: two monthly reports
    Sec(0, "CheetahGenerator",
        [encoding |-> "html_entities",
         search_list_additions |-> << "user.A" >>,
         search_list_extensions |-> << "user.L1", "user.L2" >>],
        << Sec(1, "SummaryByMonth", [encoding |-> "strict_ascii"],
               << Sec(2, "NOAA_month", [template |-> Tmpl("NOAA", TRUE, TRUE)], <<>>),
                  Sec(3, "index_month", [template |-> Tmpl("month", TRUE, TRUE)], <<>>) >>) >>),
    \* two yearly reports, an explicit search list with a blank entry
    Sec(0, "CheetahGenerator",
        [search_list |-> << "user.Z", " ", " user.A" >>],
        << Sec(1, "SummaryByYear", [encoding |-> "strict_ascii"],
               << Sec(2, "NOAA_year", [template |-> Tmpl("NOAA", TRUE, FALSE)], <<>>),
                  Sec(3, "index_year", [template |-> Tmpl("year", TRUE, FALSE)], <<>>) >>) >>),
    \* to-date reports, one with a stale_age; the default search list
    Sec(0, "CheetahGenerator",
        [encoding |-> "utf-8"],
        << Sec(1, "ToDate", << >>,
               << Sec(2, "day", [template |-> Tmpl("index", FALSE, FALSE)], <<>>) >>),
           Sec(3, "wuforecast_details",
               [stale_age |-> 1, template |-> Tmpl("wuforecast", FALSE, FALSE)], <<>>) >>),
    \* a monthly report with a stale_age, and a yearly one
    Sec(0, "CheetahGenerator",
        [search_list |-> << >>],
        << Sec(1, "SummaryByMonth", [stale_age |-> 1],
               << Sec(2, "NOAA_month", [template |-> Tmpl("NOAA", TRUE, TRUE)], <<>>) >>),
           Sec(3, "SummaryByYear", << >>,
               << Sec(4, "NOAA_year", [template |-> Tmpl("NOAA", TRUE, FALSE)], <<>>) >>) >>),
    \* a search list addition that cannot be resolved
    Sec(0, "CheetahGenerator",
        [search_list |-> << "user.A" >>,
         search_list_additions |-> << "user.missing" >>],
        << Sec(1, "ToDate", << >>,
               << Sec(2, "day", [template |-> Tmpl("index", FALSE, FALSE)], <<>>) >>) >>),
    \* a search list extension whose constructor raises
    Sec(0, "CheetahGenerator",
        [search_list |-> << "user.A" >>,
         search_list_extensions |-> << "user.L1", "user.badctor" >>],
        << Sec(1, "ToDate", << >>,
               << Sec(2, "day", [template |-> Tmpl("index", FALSE, FALSE)], <<>>) >> ) >>),
    \* explicit summarize_by options on a summary section and on a report
    Sec(0, "CheetahGenerator",
        [search_list |-> << "Station" >>],
        << Sec(1, "SummaryByYear", [summarize_by |-> "SummaryByMonth"],
               << Sec(2, "NOAA_month", [template |-> Tmpl("NOAA", TRUE, TRUE)], <<>>),
                  Sec(3, "current",
                      [summarize_by |-> "None",
                       template |-> Tmpl("current", FALSE, FALSE)], <<>>) >>) >>),
    \* reports with subsections of their own, one of them on a database
    \* that holds no record yet
    Sec(0, "CheetahGenerator",
        [search_list |-> << "Station" >>],
        << Sec(1, "Outer",
               [template |-> Tmpl("outer", FALSE, FALSE), database |-> "empty_archive"],
               << Sec(2, "Inner", [database |-> "archive"],
                      << Sec(3, "Leaf", [template |-> Tmpl("leaf", FALSE, FALSE)], <<>>) >>),
                  Sec(4, "Bare", << >>, <<>>) >>),
           Sec(5, "After", [template |-> Tmpl("after", FALSE, FALSE)],
               << Sec(6, "Sub", [template |-> Tmpl("sub", FALSE, FALSE)], <<>>) >>) >>)
>>

\* section.has_key(k), on the section's own scalars
has_key(scalars, k) == k \in DOMAIN scalars

\* dict.get(k): the value, or None (the empty sequence, for list options)
get(scalars, k) == IF k \in DOMAIN scalars THEN scalars[k] ELSE << >>

\* (mutant) the name of the subsection overrides the option it declares
ImpliedScalarsAlways(sub) ==
    IF sub.name \in generator_dict
    THEN Merge(sub.scalars, [summarize_by |-> sub.name])
    ELSE sub.scalars

\* Lines 213-219: the scalars of a subsection after generate has given it
\* the summarize_by its name implies (only when it declares none itself).
ImpliedScalars(sub) ==
    IF ~ has_key(sub.scalars, "summarize_by") /\ sub.name \in generator_dict
    THEN Merge(sub.scalars, [summarize_by |-> sub.name])
    ELSE sub.scalars

\* generate's recursion, as the ordered list of the report tasks it runs:
\* all subsections first, in order, then the section itself if it declares
\* a template; report_dict is accumulateLeaves(section), and below holds the
\* sections under this one whose counts line 221 adds to its own.
RECURSIVE Walk(_, _, _)
RECURSIVE WalkSubs(_, _, _)
\* (mutant) a section is generated when its accumulated options hold a
\* template, its own or an ancestor's
WalkInherited(section, scalars, above) ==
    LET report_dict == Merge(above, scalars)
        subs == WalkSubs(section.sections, report_dict, 1)
    IN  subs
        \o (IF has_key(report_dict, "template")
            THEN << [node |-> section.id, report_dict |-> report_dict,
                     below |-> {subs[i].node : i \in DOMAIN subs}] >>
            ELSE << >>)
Walk(section, scalars, above) ==
    LET report_dict == Merge(above, scalars)
        subs == WalkSubs(section.sections, report_dict, 1)
    IN  subs
        \o (IF has_key(scalars, "template")
            THEN << [node |-> section.id, report_dict |-> report_dict,
                     below |-> {subs[i].node : i \in DOMAIN subs}] >>
            ELSE << >>)
WalkSubs(subs, above, i) ==
    IF i > Len(subs) THEN << >>
    ELSE Walk(subs[i], ImpliedScalars(subs[i]), above) \o WalkSubs(subs, above, i + 1)

\* Line 141: run sets the default summarize_by on the option section.
OptionScalars(root) == Merge(root.scalars, [summarize_by |-> "None"])

\* The tasks of one run over a configuration, in generation order.
Tasks(root) == Walk(root, OptionScalars(root), << >>)

\* (mutant) the count of the subsections is dropped
ReturnedOwnOnly(tasks, ngen, i) == ngen[i]

\* Lines 211-221 and 320: the value generate returns for the section of
\* task i: the counts its subsections returned plus the count of its own loop.
ReturnedBy(tasks, ngen, i) ==
    ngen[i] + SumSeq([j \in 1..Len(tasks) |->
                        IF tasks[j].node \in tasks[i].below THEN ngen[j] ELSE 0])

\* Line 146: the value generate returns for the option section.
Total(ngen) == SumSeq(ngen)

\* report_dict['database'], the default binding when the skin names none
Database(report_dict) ==
    IF has_key(report_dict, "database") THEN report_dict.database ELSE "archive"

\* to_int(report_dict.get('stale_age')): << >> is None
StaleAge(report_dict) ==
    IF has_key(report_dict, "stale_age") THEN << report_dict.stale_age >> ELSE << >>

\* _prepGen: the encoding option, lower-cased, 'utf-8' spelled 'utf8'
Encoding(report_dict) ==
    LET e == IF has_key(report_dict, "encoding") THEN report_dict.encoding
             ELSE "html_entities"
    IN  IF e = "utf-8" THEN "utf8" ELSE e

\* ------------------------------------------------------------- file names
\* "%4d" % year and "%02d" % month, as strings of tokens
YrStr(span) == << LocalYear(span.start) >>
MoStr(span) == << LocalMonth(span.start) >>
\* "%s-%s" % (_yr_str, _mo_str)
YrMoStr(span) == YrStr(span) \o << "-" >> \o MoStr(span)

\* (mutant) only YYYY is replaced, MM is dropped from the name
getFileNameYearOnly(template, span) ==
    [base |-> template.base,
     yyyy |-> IF template.Y THEN YrStr(span) ELSE << >>,
     mm   |-> << >>]

\* _getFileName: YYYY and MM of the template name replaced by the year and
\* month of the window's start (<< >> where the name holds no placeholder).
getFileName(template, span) ==
    IF template.Y \/ template.M
    THEN [base |-> template.base,
          yyyy |-> IF template.Y THEN YrStr(span) ELSE << >>,
          mm   |-> IF template.M THEN MoStr(span) ELSE << >>]
    ELSE [base |-> template.base, yyyy |-> << >>, mm |-> << >>]

\* _fullname, and tmpname = _fullname + '.tmp'
FullName(filename) == [name |-> filename, tmp |-> FALSE]
\* (mutant) the output is opened at the destination itself
TmpNameIsDestination(fullname) == fullname
TmpName(fullname) == [name |-> fullname.name, tmp |-> TRUE]


\* -------------------------------------------------------------- providers
\* default_search_list (the names without their module prefix)
default_search_list == << "Almanac", "Station", "Stats", "UnitInfo", "Extras" >>

\* c.strip()
Strip(c) == IF c = " " THEN "" ELSE IF c = " user.A" THEN "user.A" ELSE c

\* weeutil.weeutil._get_object(x) finds a class for these names only
Resolvable(x) == x \in Range(default_search_list) \cup
                       {"user.A", "user.Z", "user.L1", "user.L2", "user.badctor"}
\* class_(self) raises for this one
Constructible(x) == x # "user.badctor"

\* (mutant) an identifier that cannot be loaded is passed over
RECURSIVE LoadListSkipBad(_, _, _)
LoadListSkipBad(list, i, objs) ==
    IF i > Len(list) THEN [objs |-> objs, ok |-> TRUE]
    ELSE LET x == Strip(list[i])
         IN  IF x # "" /\ Resolvable(x) /\ Constructible(x)
             THEN LoadListSkipBad(list, i + 1, Append(objs, x))
             ELSE LoadListSkipBad(list, i + 1, objs)

\* The loop of lines 178-184 (and 189-193) from entry i on: the instances
\* appended so far, and whether an identifier raised.
RECURSIVE LoadList(_, _, _)
LoadList(list, i, objs) ==
    IF i > Len(list) THEN [objs |-> objs, ok |-> TRUE]
    ELSE LET x == Strip(list[i])
         IN  IF x = "" THEN LoadList(list, i + 1, objs)
             ELSE IF Resolvable(x) /\ Constructible(x)
                  THEN LoadList(list, i + 1, Append(objs, x))
                  ELSE [objs |-> objs, ok |-> FALSE]

\* (mutant) the additions placed before the basic search list
SearchListNamesAdditionsFirst(scalars) ==
    get(scalars, "search_list_additions")
    \o (IF has_key(scalars, "search_list") THEN scalars.search_list
        ELSE default_search_list)

\* Lines 167-175: the names of the modern providers
SearchListNames(scalars) ==
    (IF has_key(scalars, "search_list") THEN scalars.search_list
     ELSE default_search_list)
    \o get(scalars, "search_list_additions")

\* initExtensions: the two lists it leaves on the generator and whether it
\* returned (ok) or raised.
initExtensions(scalars) ==
    LET modern == LoadList(SearchListNames(scalars), 1, << >>)
        legacy == LoadList(get(scalars, "search_list_extensions"), 1, << >>)
    IN  IF ~ modern.ok
        THEN [search_list_objs |-> modern.objs, search_list_exts |-> << >>, ok |-> FALSE]
        ELSE [search_list_objs |-> modern.objs, search_list_exts |-> legacy.objs,
              ok |-> legacy.ok]

\* teardown: the lists it leaves on the generator
teardown(objs, exts) == [search_list_objs |-> << >>, search_list_exts |-> exts]

\* obj.add_searchlist(timespan, db_factory): the bundles one modern provider
\* returns (user.A returns two, user.Z none, the others themselves).
add_searchlist(obj) ==
    IF obj = "user.A" THEN << [obj |-> obj, bundle |-> 1], [obj |-> obj, bundle |-> 2] >>
    ELSE IF obj = "user.Z" THEN << >>
    ELSE << [obj |-> obj, bundle |-> 1] >>

\* obj.get_extension(timespan, archivedb, statsdb): one bundle
get_extension(obj) == [obj |-> obj, bundle |-> 0]

RECURSIVE ModernBundles(_)
ModernBundles(objs) ==
    IF objs = << >> THEN << >>
    ELSE add_searchlist(Head(objs)) \o ModernBundles(Tail(objs))

\* getToDateSearchList: the backwards compatible entry
getToDateSearchList == << >>

\* (mutant) the old-style extensions placed before the new-style ones
getSearchListLegacyFirst(encoding, timespan, outputted_dict, objs, exts) ==
    << [month_name |-> LocalMonth(timespan.start),
        year_name |-> LocalYear(timespan.start),
        encoding |-> encoding],
       outputted_dict >>
    \o [i \in 1..Len(exts) |-> get_extension(exts[i])]
    \o ModernBundles(objs)

\* _getSearchList: the complete search list handed to Cheetah
getSearchList(encoding, timespan, outputted_dict, objs, exts) ==
    << [month_name |-> LocalMonth(timespan.start),
        year_name |-> LocalYear(timespan.start),
        encoding |-> encoding],
       outputted_dict >>
    \o ModernBundles(objs)
    \o [i \in 1..Len(exts) |-> get_extension(exts[i])]
    \o getToDateSearchList

\* ---------------------------------------------------------- output labels
\* (mutant) no label is recorded
RecordLabelNever(outputted_dict, summarize_by, span) == outputted_dict

\* Lines 262-270: outputted_dict after the label of a window is recorded.
RecordLabel(outputted_dict, summarize_by, span) ==
    IF summarize_by = "SummaryByMonth"
    THEN IF MoStr(span) \notin Range(outputted_dict.SummaryByMonth)
         THEN [outputted_dict EXCEPT
                 !.SummaryByMonth = Append(@, YrMoStr(span))]
         ELSE outputted_dict
    ELSE IF summarize_by = "SummaryByYear"
              /\ YrStr(span) \notin Range(outputted_dict.SummaryByYear)
         THEN [outputted_dict EXCEPT !.SummaryByYear = Append(@, YrStr(span))]
         ELSE outputted_dict


\* ------------------------------------------------------------------ state
VARIABLES
    now,        \* time.time(), the wall clock
    faults,     \* exceptions raised so far by the collaborators
    config,     \* skin_dict's option section
    firstGood,  \* default_archive.firstGoodStamp()
    lastGood,   \* default_archive.lastGoodStamp()
    dir,        \* the destination directory: path -> inode
    inodes,     \* inode -> [data, mtime]
    gen         \* the generator objects: attributes and position in run()

vars == << now, faults, config, firstGood, lastGood, dir, inodes, gen >>

\* ------------------------------------------------------------ file system
Put(f, k, v) == [x \in (DOMAIN f) \cup {k} |-> IF x = k THEN v ELSE f[x]]
Drop(f, k) == [x \in (DOMAIN f) \ {k} |-> f[x]]

\* os.path.exists(path)
Exists(path) == path \in DOMAIN dir
\* The file at a path: << >> when there is none, else its inode's content.
FileAt(path) == IF Exists(path) THEN << inodes[dir[path]] >> ELSE << >>

\* default_archive.firstGoodStamp() and lastGoodStamp() of the database a
\* report is bound to; the database empty_archive holds no record.
firstGoodStamp(database) == IF database = "empty_archive" THEN NoStamp ELSE firstGood
lastGoodStamp(database) == IF database = "empty_archive" THEN NoStamp ELSE lastGood

\* The smallest inode number not in use.
FreshInode(ino) == CHOOSE n \in 1..(Cardinality(DOMAIN ino) + 1) : n \notin DOMAIN ino

\* The inodes still referenced by a directory entry or an open file.
Live(d, ino, fds) == [n \in {m \in DOMAIN ino : m \in Range(d) \/ m \in fds} |-> ino[n]]

\* The open files of all generators after generator g's becomes fd (0: none).
Fds(g, fd) == {IF h = g THEN fd ELSE gen[h].fd : h \in DOMAIN gen} \ {0}

\* The k-th buffer of the text rendered by run number run of generator g.
Chunk(g, run, k) == [g |-> g, run |-> run, k |-> k]
Hole == [g |-> 0, run |-> 0, k |-> 0]
\* The complete text of that run.
Text(g, run) == [k \in 1..NChunks |-> Chunk(g, run, k)]

\* write() at offset k - 1 of a file: the bytes before a hole read as zeros.
WriteAt(data, k, chunk) ==
    [i \in 1..(IF Len(data) > k THEN Len(data) ELSE k) |->
        IF i = k THEN chunk ELSE IF i <= Len(data) THEN data[i] ELSE Hole]

\* ------------------------------------------------------------------- init
EmptyLabels == [SummaryByMonth |-> << >>, SummaryByYear |-> << >>]

NewGenerator(quota) ==
    [pc |-> "idle", quota |-> quota, runs |-> 0, gen_ts |-> NoStamp,
     outputted_dict |-> EmptyLabels,
     search_list_objs |-> << >>, search_list_exts |-> << >>,
     tasks |-> << >>, ti |-> 1, ngen |-> << >>, stop_ts |-> NoStamp,
     spans |-> << >>, wi |-> 0, fullname |-> FullName(<< >>), t_now |-> 0,
     searchList |-> << >>, fd |-> 0, off |-> 0,
     outcome |-> "none", pre |-> << >>, log |-> << >>,
     prev |-> [done |-> FALSE, gen_ts |-> NoStamp, ngen |-> << >>],
     ctor |-> 0, returned |-> << >>, total |-> << >>, labels0 |-> EmptyLabels,
     failed |-> {}, failedBefore |-> {}]

FirstStamps == {NoStamp, 1, 3}
GenStamps == {NoStamp, 2}

InitWorld ==
    /\ now = 0
    /\ faults = 0
    /\ firstGood \in FirstStamps
    /\ lastGood = IF firstGood = NoStamp THEN NoStamp ELSE MaxTs - 1
    /\ dir = << >>
    /\ inodes = << >>

\* One generator object, run MaxRuns times, over any of the configurations.
Init ==
    /\ InitWorld
    /\ config \in Range(Configs)
    /\ gen = [g \in {1} |-> NewGenerator(MaxRuns)]


\* ---------------------------------------------------------------- actions
\* Generator g's attributes and locals changed to the given values.
Set(g, fields) == gen' = [gen EXCEPT ![g] = Merge(@, fields)]

World == << now, faults, config, firstGood, lastGood >>
Files == << dir, inodes >>

\* A collaborator may raise as long as the fault budget lasts.
Outcomes == IF faults < MaxFaults THEN {"ok", "raise"} ELSE {"ok"}
Charge(result) == faults' = IF result = "raise" THEN faults + 1 ELSE faults

\* The record of what became of each window of each task of the run (kept
\* for the properties; the code logs the same events to syslog).
Logged(g, outcome) ==
    [outcome |-> outcome,
     log |-> [gen[g].log EXCEPT ![gen[g].ti] = Append(@, outcome)],
     failed |-> IF outcome = "failed" THEN gen[g].failed \cup {gen[g].fullname}
                ELSE gen[g].failed]

\* run, lines 129-141: setup() and the copy of the skin dictionary with the
\* default summarize_by; the report engine supplies gen_ts.
StartRun(g) ==
    /\ gen[g].pc \in {"idle", "done", "raised"}
    /\ gen[g].runs < gen[g].quota
    /\ \E ts \in GenStamps :
         Set(g, [pc |-> "initExtensions", runs |-> gen[g].runs + 1, gen_ts |-> ts,
                 outputted_dict |-> EmptyLabels,
                 tasks |-> Tasks(config), ti |-> 1,
                 ngen |-> [i \in 1..Len(Tasks(config)) |-> 0],
                 outcome |-> "none", pre |-> << >>,
                 log |-> [i \in 1..Len(Tasks(config)) |-> << >>],
                 prev |-> [done |-> gen[g].pc = "done", gen_ts |-> gen[g].gen_ts,
                           ngen |-> gen[g].ngen],
                 ctor |-> 0, total |-> << >>, labels0 |-> EmptyLabels,
                 failed |-> {}, failedBefore |-> gen[g].failed,
                 returned |-> [i \in 1..Len(Tasks(config)) |-> << >>]])
    /\ UNCHANGED << World, Files >>

\* run, line 143: initExtensions(gen_dict[option_section_name]); an
\* identifier that cannot be resolved or constructed raises out of run.
\* ctor counts the instances class_(self) has returned in this run.
InitExtensions(g) ==
    /\ gen[g].pc = "initExtensions"
    /\ LET r == initExtensions(OptionScalars(config))
       IN  Set(g, [pc |-> IF r.ok THEN "generate" ELSE "raised",
                   search_list_objs |-> r.search_list_objs,
                   search_list_exts |-> r.search_list_exts,
                   ctor |-> Len(r.search_list_objs) + Len(r.search_list_exts)])
    /\ UNCHANGED << World, Files >>

\* (mutant) a report is generated whether its database has a start or not
NoStartNever(start_ts) == FALSE

\* Line 245: if not start_ts
NoStart(start_ts) == start_ts = NoStamp

\* The values generate has returned, with the one returned for task i.
Return(g, i) ==
    [gen[g].returned EXCEPT ![i] = << ReturnedBy(gen[g].tasks, gen[g].ngen, i) >>]

\* generate, lines 226-257, for the next section that declares a template:
\* the data source's start (none: return ngen), the stop time and the spans.
BeginTask(g) ==
    /\ gen[g].pc = "generate"
    /\ gen[g].ti <= Len(gen[g].tasks)
    /\ LET report_dict == gen[g].tasks[gen[g].ti].report_dict
           start_ts == firstGoodStamp(Database(report_dict))
           stop_ts == IF gen[g].gen_ts # NoStamp THEN gen[g].gen_ts
                      ELSE lastGoodStamp(Database(report_dict))
       IN  IF NoStart(start_ts)
           THEN Set(g, [ti |-> gen[g].ti + 1, returned |-> Return(g, gen[g].ti)])
           ELSE Set(g, [pc |-> "loop", stop_ts |-> stop_ts, wi |-> 0,
                        labels0 |-> gen[g].outputted_dict,
                        spans |-> spangen(report_dict.summarize_by, start_ts, stop_ts)])
    /\ UNCHANGED << World, Files >>

\* (mutant) the summary rule without the os.path.exists test
SummarySkipNoExists(summarize_by, exists, timespan, stop_ts) ==
    /\ summarize_by \in generator_dict
    /\ ~ includesArchiveTime(timespan, stop_ts)

\* (mutant) no summary rule at all
SummarySkipNever(summarize_by, exists, timespan, stop_ts) == FALSE

\* Lines 276-280: skip summary files outside the timespan.
SummarySkip(summarize_by, exists, timespan, stop_ts) ==
    /\ summarize_by \in generator_dict
    /\ exists
    /\ ~ includesArchiveTime(timespan, stop_ts)

\* (mutant) the age compared with <= instead of <
StaleSkipInclusive(stale, t_now, file) ==
    /\ stale # << >>
    /\ file # << >>
    /\ t_now - file[1].mtime <= stale[1]

\* Lines 282-293: skip files that are fresh, only if staleness is defined;
\* file is << >> when os.path.getmtime raises os.error.
StaleSkip(stale, t_now, file) ==
    /\ stale # << >>
    /\ file # << >>
    /\ t_now - file[1].mtime < stale[1]

\* (mutant) the search list is composed before the skip rules are applied
SkippedAfterSearchList(g, seen, outcome) ==
    Merge(seen,
          Merge(Logged(g, outcome),
                [searchList |-> getSearchList(
                    Encoding(gen[g].tasks[gen[g].ti].report_dict),
                    gen[g].spans[seen.wi], seen.outputted_dict,
                    gen[g].search_list_objs, gen[g].search_list_exts)]))

\* Lines 280 and 291: continue; what generate has changed when a window is
\* skipped: the locals of the window and nothing else.
Skipped(g, seen, outcome) == Merge(seen, Logged(g, outcome))

\* generate, lines 259-293: the next span of the loop: its label, its file
\* name and the two skip rules.
NextSpan(g) ==
    /\ gen[g].pc = "loop"
    /\ gen[g].wi < Len(gen[g].spans)
    /\ LET report_dict == gen[g].tasks[gen[g].ti].report_dict
           timespan == gen[g].spans[gen[g].wi + 1]
           fullname == FullName(getFileName(report_dict.template, timespan))
           labels == RecordLabel(gen[g].outputted_dict, report_dict.summarize_by, timespan)
           seen == [wi |-> gen[g].wi + 1, outputted_dict |-> labels,
                    fullname |-> fullname, pre |-> FileAt(fullname)]
       IN  IF SummarySkip(report_dict.summarize_by, Exists(fullname), timespan,
                          gen[g].stop_ts)
           THEN Set(g, Skipped(g, seen, "skip_summary"))
           ELSE IF StaleSkip(StaleAge(report_dict), now, FileAt(fullname))
           THEN Set(g, Merge(Skipped(g, seen, "skip_stale"), [t_now |-> now]))
           ELSE Set(g, Merge(seen, [outcome |-> "pending", t_now |-> now,
                                    pc |-> "searchList"]))
    /\ UNCHANGED << World, Files >>

\* generate, line 320: the loop is over, return ngen.
EndTask(g) ==
    /\ gen[g].pc = "loop"
    /\ gen[g].wi = Len(gen[g].spans)
    /\ Set(g, [pc |-> "generate", ti |-> gen[g].ti + 1,
                returned |-> Return(g, gen[g].ti)])
    /\ UNCHANGED << World, Files >>

\* (mutant) the providers are loaded again for every window
ProvidersReloaded(g) ==
    LET r == initExtensions(OptionScalars(config))
    IN  [search_list_objs |-> r.search_list_objs,
         search_list_exts |-> r.search_list_exts,
         ctor |-> gen[g].ctor + Len(r.search_list_objs) + Len(r.search_list_exts)]

\* Lines 338 and 342: the instances _getSearchList takes the bindings from
\* are the ones on the generator; it constructs none.
Providers(g) ==
    [search_list_objs |-> gen[g].search_list_objs,
     search_list_exts |-> gen[g].search_list_exts,
     ctor |-> gen[g].ctor]

\* generate, lines 295-296: _getSearchList; a provider's add_searchlist or
\* get_extension may raise, and nothing here catches it.
GetSearchList(g) ==
    /\ gen[g].pc = "searchList"
    /\ \E result \in Outcomes :
         /\ Charge(result)
         /\ LET report_dict == gen[g].tasks[gen[g].ti].report_dict
            IN  IF result = "ok"
                THEN Set(g, Merge(Providers(g),
                            [pc |-> "template",
                             searchList |-> getSearchList(Encoding(report_dict),
                                 gen[g].spans[gen[g].wi], gen[g].outputted_dict,
                                 Providers(g).search_list_objs,
                                 Providers(g).search_list_exts)]))
                ELSE Set(g, Merge(Logged(g, "raised"), [pc |-> "raised"]))
    /\ UNCHANGED << now, config, firstGood, lastGood, Files >>

\* generate, lines 298-302: Cheetah.Template.Template(file=template, ...)
\* reads and compiles the template; it may raise, outside the try.
MakeTemplate(g) ==
    /\ gen[g].pc = "template"
    /\ \E result \in Outcomes :
         /\ Charge(result)
         /\ IF result = "ok"
            THEN Set(g, [pc |-> "open"])
            ELSE Set(g, Merge(Logged(g, "raised"), [pc |-> "raised"]))
    /\ UNCHANGED << now, config, firstGood, lastGood, Files >>

\* generate, line 304: open(tmpname, mode='w') creates or truncates the
\* temporary file; an exception goes to the handler and then to finally.
OpenTmp(g) ==
    /\ gen[g].pc = "open"
    /\ \E result \in Outcomes :
         /\ Charge(result)
         /\ LET tmpname == TmpName(gen[g].fullname)
                fd == IF Exists(tmpname) THEN dir[tmpname] ELSE FreshInode(inodes)
            IN  IF result = "ok"
                THEN /\ Set(g, [pc |-> "write", fd |-> fd, off |-> 0])
                     /\ dir' = Put(dir, tmpname, fd)
                     /\ inodes' = Put(inodes, fd, [data |-> << >>, mtime |-> now])
                ELSE /\ Set(g, Merge(Logged(g, "failed"), [pc |-> "unlink"]))
                     /\ UNCHANGED Files
    /\ UNCHANGED << now, config, firstGood, lastGood >>

\* generate, line 305: print >> _file, text: the template is rendered and
\* written buffer by buffer through the open file; the with statement
\* closes the file when the text is written or an exception is raised.
WriteText(g) ==
    /\ gen[g].pc = "write"
    /\ \E result \in Outcomes :
         /\ Charge(result)
         /\ LET fd == gen[g].fd
                k == gen[g].off + 1
            IN  IF result = "ok"
                THEN /\ inodes' = Live(dir,
                            [inodes EXCEPT ![fd] =
                                [data |-> WriteAt(@.data, k, Chunk(g, gen[g].runs, k)),
                                 mtime |-> now]],
                            Fds(g, IF k = NChunks THEN 0 ELSE fd))
                     /\ IF k = NChunks
                        THEN Set(g, [pc |-> "rename", fd |-> 0, off |-> k])
                        ELSE Set(g, [off |-> k])
                ELSE /\ inodes' = Live(dir, inodes, Fds(g, 0))
                     /\ Set(g, Merge(Logged(g, "failed"), [pc |-> "unlink", fd |-> 0]))
    /\ UNCHANGED << now, config, firstGood, lastGood, dir >>

\* (mutant) a rename that fails leaves the destination with a new
\* modification time
RenameTouchesOnFailure(g) ==
    /\ gen[g].pc = "rename"
    /\ \E result \in Outcomes :
         /\ Charge(result)
         /\ LET tmpname == TmpName(gen[g].fullname)
                moved == Drop(Put(dir, gen[g].fullname, dir[tmpname]), tmpname)
            IN  IF result = "ok" /\ Exists(tmpname)
                THEN /\ dir' = moved
                     /\ inodes' = Live(moved, inodes, Fds(g, 0))
                     /\ Set(g, Merge(Logged(g, "ok"),
                                [pc |-> "unlink",
                                 ngen |-> [gen[g].ngen EXCEPT ![gen[g].ti] = @ + 1]]))
                ELSE /\ Set(g, Merge(Logged(g, "failed"), [pc |-> "unlink"]))
                     /\ dir' = dir
                     /\ inodes' = IF Exists(gen[g].fullname)
                                  THEN [inodes EXCEPT ![dir[gen[g].fullname]].mtime = now]
                                  ELSE inodes
    /\ UNCHANGED << now, config, firstGood, lastGood >>

\* generate, lines 306-313: os.rename(tmpname, _fullname), and ngen += 1 if
\* nothing raised; OSError when the temporary file is gone.
Rename(g) ==
    /\ gen[g].pc = "rename"
    /\ \E result \in Outcomes :
         /\ Charge(result)
         /\ LET tmpname == TmpName(gen[g].fullname)
                moved == Drop(Put(dir, gen[g].fullname, dir[tmpname]), tmpname)
            IN  IF result = "ok" /\ Exists(tmpname)
                THEN /\ dir' = moved
                     /\ inodes' = Live(moved, inodes, Fds(g, 0))
                     /\ Set(g, Merge(Logged(g, "ok"),
                                [pc |-> "unlink",
                                 ngen |-> [gen[g].ngen EXCEPT ![gen[g].ti] = @ + 1]]))
                ELSE /\ Set(g, Merge(Logged(g, "failed"), [pc |-> "unlink"]))
                     /\ UNCHANGED Files
    /\ UNCHANGED << now, config, firstGood, lastGood >>

\* (mutant) the temporary file is left where it is
UnlinkNever(g) ==
    /\ gen[g].pc = "unlink"
    /\ Set(g, [pc |-> "loop"])
    /\ UNCHANGED << World, Files >>

\* generate, lines 314-318: finally os.unlink(tmpname), OSError ignored.
Unlink(g) ==
    /\ gen[g].pc = "unlink"
    /\ LET tmpname == TmpName(gen[g].fullname)
           removed == Drop(dir, tmpname)
       IN  /\ dir' = removed
           /\ inodes' = Live(removed, inodes, Fds(g, 0))
    /\ Set(g, [pc |-> "loop"])
    /\ UNCHANGED World

\* run, lines 146-152: generate has returned for the option section;
\* teardown(), then the count is logged.
Teardown(g) ==
    /\ gen[g].pc = "generate"
    /\ gen[g].ti > Len(gen[g].tasks)
    /\ LET r == teardown(gen[g].search_list_objs, gen[g].search_list_exts)
       IN  Set(g, [pc |-> "done", total |-> << Total(gen[g].ngen) >>,
                   search_list_objs |-> r.search_list_objs,
                   search_list_exts |-> r.search_list_exts])
    /\ UNCHANGED << World, Files >>

\* Time passes; one unit of the clock is longer than a run takes, so the
\* clock is read as advancing between runs.
Tick ==
    /\ now < MaxClock
    /\ \A g \in DOMAIN gen : gen[g].pc \in {"idle", "done", "raised"}
    /\ now' = now + 1
    /\ UNCHANGED << faults, config, firstGood, lastGood, Files, gen >>

Next ==
    \/ Tick
    \/ \E g \in DOMAIN gen : StartRun(g)
    \/ \E g \in DOMAIN gen : InitExtensions(g)
    \/ \E g \in DOMAIN gen : BeginTask(g)
    \/ \E g \in DOMAIN gen : NextSpan(g)
    \/ \E g \in DOMAIN gen : EndTask(g)
    \/ \E g \in DOMAIN gen : GetSearchList(g)
    \/ \E g \in DOMAIN gen : MakeTemplate(g)
    \/ \E g \in DOMAIN gen : OpenTmp(g)
    \/ \E g \in DOMAIN gen : WriteText(g)
    \/ \E g \in DOMAIN gen : Rename(g)
    \/ \E g \in DOMAIN gen : Unlink(g)
    \/ \E g \in DOMAIN gen : Teardown(g)

Spec == Init /\ [][Next]_vars

\* Two generator objects, each run once, started by independent callers
\* over the same skin and destination directory.
SharedConfig ==
    Sec(0, "CheetahGenerator",
        [search_list |-> << "Station" >>],
        << Sec(1, "ToDate", << >>,
               << Sec(2, "day", [template |-> Tmpl("index", FALSE, FALSE)], <<>>) >>) >>)

InitConc ==
    /\ InitWorld
    /\ config = SharedConfig
    /\ gen = [g \in {1, 2} |-> NewGenerator(1)]

SpecConc == InitConc /\ [][Next]_vars


\* ----------------------------------------------------------------- claims
Gens == DOMAIN gen
\* The report_dict of the task generator g is in (or was last in).
ReportDict(g) == gen[g].tasks[gen[g].ti].report_dict
\* Generator g is inside generate's loop, at or after its first window.
InLoop(g) ==
    gen[g].pc \in {"loop", "searchList", "template", "open", "write", "rename", "unlink"}
        /\ gen[g].wi >= 1
\* The skip rules have just been applied to g's current window and nothing
\* else has been done for it yet.
JustDecided(g) ==
    \/ gen[g].pc = "loop" /\ gen[g].wi >= 1
          /\ gen[g].outcome \in {"skip_summary", "skip_stale"}
    \/ gen[g].pc = "searchList"
\* The effective reference timestamp of g's run.
Reference(g) == IF gen[g].gen_ts # NoStamp THEN gen[g].gen_ts ELSE lastGood

\* C1: while a window is attempted and until its rename succeeds, and after
\* an attempt that failed, the destination is exactly what it was before the
\* attempt (absent, or the same content and modification time): nothing but
\* the rename touches it.
C1_FailedWindowKeepsDestination ==
    \A g \in Gens :
        (InLoop(g) \/ gen[g].pc = "raised")
            /\ gen[g].outcome \in {"pending", "failed", "raised"}
        => FileAt(gen[g].fullname) = gen[g].pre

\* C1 witness: a write that failed half way over an existing destination.
C1_Witness ==
    \E g \in Gens :
        /\ gen[g].pc = "loop" /\ gen[g].outcome = "failed"
        /\ gen[g].off = 1 /\ gen[g].pre # << >>

\* C2: no failure inside a window (template construction, binding
\* composition, rendering, file write) ever leaves generate as an exception.
C2_GenerateNeverRaises ==
    \A g \in Gens : ~ (gen[g].pc = "raised" /\ gen[g].outcome = "raised")

\* C3: the staleness-age rule skips a window exactly when a stale_age is
\* configured, the destination exists and now - lastModified < stale_age;
\* a window whose destination does not exist is skipped by neither rule.
C3_StaleRule ==
    \A g \in Gens :
        JustDecided(g) =>
            /\ gen[g].outcome # "skip_summary" =>
                  ( gen[g].outcome = "skip_stale"
                    <=> /\ "stale_age" \in DOMAIN ReportDict(g)
                        /\ gen[g].pre # << >>
                        /\ gen[g].t_now - gen[g].pre[1].mtime < ReportDict(g).stale_age )
            /\ gen[g].pre = << >> => gen[g].outcome = "pending"

\* C3 witness: a window skipped because its destination is fresh.
C3_Witness ==
    \E g \in Gens : gen[g].pc = "loop" /\ gen[g].outcome = "skip_stale"

\* C4: the summary rule skips a window exactly when the mode is
\* SummaryByMonth or SummaryByYear, the destination exists and the window
\* does not include the effective reference timestamp, whatever the stale_age.
C4_SummaryRule ==
    \A g \in Gens :
        JustDecided(g) =>
            ( gen[g].outcome = "skip_summary"
              <=> /\ ReportDict(g).summarize_by \in {"SummaryByMonth", "SummaryByYear"}
                  /\ gen[g].pre # << >>
                  /\ ~ ( gen[g].spans[gen[g].wi].start <= Reference(g)
                         /\ Reference(g) < gen[g].spans[gen[g].wi].stop ) )

\* C4 witness: a summary of a past period skipped in a run without gen_ts,
\* for a report that has a stale_age.
C4_Witness ==
    \E g \in Gens :
        /\ gen[g].pc = "loop" /\ gen[g].outcome = "skip_summary"
        /\ gen[g].gen_ts = NoStamp
        /\ "stale_age" \in DOMAIN ReportDict(g)


\* The month windows of a run of g, and the destination of one of them.
MonthWindows(g) == genMonthSpans(firstGood, Reference(g))
DestOf(g, i, span) == FullName(getFileName(gen[g].tasks[i].report_dict.template, span))
\* Task i of g's current run has returned.
Finished(g, i) == gen[g].pc \notin {"idle", "initExtensions"} /\ gen[g].ti > i
\* g is in a run that follows a complete run with the same reference
\* timestamp, in which SummaryByMonth task i (no stale_age) wrote the output
\* of every month.
SecondRun(g, i) ==
    /\ gen[g].pc \notin {"idle", "initExtensions"}
    /\ i \in DOMAIN gen[g].tasks
    /\ gen[g].tasks[i].report_dict.summarize_by = "SummaryByMonth"
    /\ "stale_age" \notin DOMAIN gen[g].tasks[i].report_dict
    /\ gen[g].prev.done
    /\ gen[g].prev.gen_ts = gen[g].gen_ts
    /\ firstGood # NoStamp
    /\ Len(MonthWindows(g)) >= 1
    /\ gen[g].prev.ngen[i] = Len(MonthWindows(g))

\* C5 (as claimed): the second run's count for the task is 1.
C5_SecondRunCountsOne ==
    \A g \in Gens : \A i \in DOMAIN gen[g].tasks :
        SecondRun(g, i) /\ Finished(g, i) => gen[g].ngen[i] = 1

\* C5 (amended): the second run leaves the outputs of all earlier months as
\* the first run wrote them and attempts only the month that includes the
\* reference timestamp; its count is 1 if that write succeeds and 0 if not.
C5_SecondRunAttemptsCurrentMonthOnly ==
    \A g \in Gens : \A i \in DOMAIN gen[g].tasks :
        SecondRun(g, i) =>
            LET n == Len(MonthWindows(g)) IN
            /\ \A j \in 1..(n - 1) :
                  /\ Exists(DestOf(g, i, MonthWindows(g)[j]))
                  /\ inodes[dir[DestOf(g, i, MonthWindows(g)[j])]].data
                        = Text(g, gen[g].runs - 1)
            /\ Finished(g, i) =>
                  /\ Len(gen[g].log[i]) = n
                  /\ \A j \in 1..(n - 1) : gen[g].log[i][j] = "skip_summary"
                  /\ gen[g].log[i][n] \in {"ok", "failed"}
                  /\ gen[g].ngen[i] = IF gen[g].log[i][n] = "ok" THEN 1 ELSE 0
                  /\ gen[g].log[i][n] = "ok" =>
                        inodes[dir[DestOf(g, i, MonthWindows(g)[n])]].data
                            = Text(g, gen[g].runs)

\* C5 witness: a second run over three months that rewrote the last one.
C5_Witness ==
    \E g \in Gens : \E i \in DOMAIN gen[g].tasks :
        /\ SecondRun(g, i) /\ Finished(g, i)
        /\ Len(MonthWindows(g)) = 3
        /\ gen[g].ngen[i] = 1

\* A sequence without duplicates.
NoDuplicates(seq) == \A i, j \in DOMAIN seq : seq[i] = seq[j] => i = j

\* C6: at every point of a run outputted_dict[mode] holds no label twice,
\* for both modes, however many reports share the mode.
C6_LabelsUnique ==
    \A g \in Gens :
        /\ NoDuplicates(gen[g].outputted_dict.SummaryByMonth)
        /\ NoDuplicates(gen[g].outputted_dict.SummaryByYear)

\* C7: with two runs writing the same destination concurrently, a
\* destination that exists always holds the complete text of one run.
C7_DestinationNeverPartial ==
    \A p \in DOMAIN dir :
        ~ p.tmp =>
            \E g \in Gens : \E r \in 1..MaxRuns : inodes[dir[p]].data = Text(g, r)

\* The identifiers no class can be loaded or constructed for.
BadIdentifiers == {"user.missing", "user.badctor"}
Misconfigured ==
    \E k \in {"search_list", "search_list_additions", "search_list_extensions"} :
        k \in DOMAIN config.scalars /\ Range(config.scalars[k]) \cap BadIdentifiers # {}

\* C8: with an identifier that cannot be resolved or constructed, run ends
\* in initExtensions with the exception: generate is never entered, no
\* window is processed and no file, temporary or not, is ever written.
C8_BadProviderAbortsRun ==
    Misconfigured =>
        /\ dir = << >> /\ inodes = << >>
        /\ \A g \in Gens :
              /\ gen[g].pc \in {"idle", "initExtensions", "raised"}
              /\ gen[g].wi = 0
              /\ \A i \in DOMAIN gen[g].log : gen[g].log[i] = << >>

\* C8 witness: a run aborted by the second identifier, after the first
\* provider was constructed.
C8_Witness ==
    /\ Misconfigured
    /\ \E g \in Gens : gen[g].pc = "raised" /\ gen[g].search_list_objs # << >>

\* The number of bundles the modern providers of g return.
NModern(g) == Len(ModernBundles(gen[g].search_list_objs))
NLegacy(g) == Len(gen[g].search_list_exts)
BuiltSearchList(g) == gen[g].pc \in {"template", "open", "write", "rename"}

\* C9 (as claimed): the search list ends with an empty bundle for the
\* deprecated hook, so its length is 3 + modern bundles + legacy providers.
C9_SearchListHasFinalEmptyBundle ==
    \A g \in Gens :
        BuiltSearchList(g) => Len(gen[g].searchList) = 3 + NModern(g) + NLegacy(g)

\* C9 (amended): the search list is the synthetic bundle, the label set,
\* the modern providers' bundles in registration order and one bundle per
\* legacy provider in registration order, and nothing else: its length is
\* 2 + modern bundles + legacy providers.
C9_SearchListOrder ==
    \A g \in Gens :
        BuiltSearchList(g) =>
            LET sl == gen[g].searchList
                span == gen[g].spans[gen[g].wi]
            IN  /\ Len(sl) = 2 + NModern(g) + NLegacy(g)
                /\ sl[1] = [month_name |-> LocalMonth(span.start),
                            year_name |-> LocalYear(span.start),
                            encoding |-> Encoding(ReportDict(g))]
                /\ sl[2] = gen[g].outputted_dict
                /\ \A i \in 1..NModern(g) :
                      sl[2 + i] = ModernBundles(gen[g].search_list_objs)[i]
                /\ \A i \in 1..NLegacy(g) :
                      sl[2 + NModern(g) + i].obj = gen[g].search_list_exts[i]

\* C9 witness: a search list with two modern bundles and two legacy ones.
C9_Witness ==
    \E g \in Gens :
        /\ gen[g].pc = "template"
        /\ gen[g].search_list_exts = << "user.L1", "user.L2" >>
        /\ "user.A" \in Range(gen[g].search_list_objs)

\* C10: when run has ended, the generator holds no provider instance:
\* search_list_objs and search_list_exts are both empty.
C10_TeardownReleasesProviders ==
    \A g \in Gens :
        gen[g].pc = "done" =>
            gen[g].search_list_objs = << >> /\ gen[g].search_list_exts = << >>


\* The entries of a list option that are not blank.
CountNonBlank(list) == Cardinality({i \in DOMAIN list : list[i] # " "})
\* The number of provider identifiers the option section configures.
NConfigured ==
    (IF "search_list" \in DOMAIN config.scalars
     THEN CountNonBlank(config.scalars.search_list) ELSE 5)
    + (IF "search_list_additions" \in DOMAIN config.scalars
       THEN CountNonBlank(config.scalars.search_list_additions) ELSE 0)
    + (IF "search_list_extensions" \in DOMAIN config.scalars
       THEN CountNonBlank(config.scalars.search_list_extensions) ELSE 0)
\* g's run has entered generate (and may have left it).
InGenerate(g) ==
    \/ gen[g].pc = "generate" \/ gen[g].pc = "done"
    \/ gen[g].pc \in {"loop", "searchList", "template", "open", "write", "rename", "unlink"}
    \/ gen[g].pc = "raised" /\ gen[g].outcome = "raised"

\* C11: in one run each configured provider identifier is constructed once,
\* before the first window: nothing is constructed before initExtensions,
\* the number of constructions is the number of configured identifiers from
\* the moment generate is entered to the end of the run, whatever the number
\* of reports and windows, and every search list is made of bundles of the
\* instances the generator holds.
C11_ProvidersConstructedOncePerRun ==
    \A g \in Gens :
        /\ gen[g].ctor <= NConfigured
        /\ gen[g].pc = "initExtensions" =>
              gen[g].ctor = 0 /\ \A i \in DOMAIN gen[g].log : gen[g].log[i] = << >>
        /\ InGenerate(g) => gen[g].ctor = NConfigured
        /\ InGenerate(g) /\ gen[g].pc # "done" =>
              Len(gen[g].search_list_objs) + Len(gen[g].search_list_exts) = NConfigured
        /\ BuiltSearchList(g) =>
              \A i \in 3..Len(gen[g].searchList) :
                  gen[g].searchList[i].obj \in
                      Range(gen[g].search_list_objs) \cup Range(gen[g].search_list_exts)

\* C11 witness: the second window of the second report of a second run,
\* with eight providers constructed in that run.
C11_Witness ==
    \E g \in Gens :
        /\ BuiltSearchList(g) /\ gen[g].runs = 2
        /\ gen[g].ti = 2 /\ gen[g].wi = 2
        /\ gen[g].ctor = 8 /\ NConfigured = 8


\* The sections of a configuration tree, the root included.
RECURSIVE AllSections(_)
AllSections(section) ==
    {section} \cup UNION {AllSections(section.sections[k]) : k \in DOMAIN section.sections}
\* The sections that declare a template themselves.
OwnTemplate(section) ==
    {s.id : s \in {t \in AllSections(section) : "template" \in DOMAIN t.scalars}}
\* The positions in g's task list of the sections of a subtree.
TasksIn(g, section) ==
    {i \in DOMAIN gen[g].tasks : gen[g].tasks[i].node \in OwnTemplate(section)}
Started(g) == gen[g].pc # "idle"

\* C12: the sections handed to the generation pipeline are exactly the ones
\* that declare a template themselves, each once; the reports under a
\* section are all processed before the section's own template, subsection
\* by subsection in configuration order; windows are processed in that order
\* only, and every file in the destination directory bears the name of the
\* template of a section that declares it and has data.
C12_TemplateNodesGenerated ==
    \A g \in Gens :
        Started(g) =>
            /\ {gen[g].tasks[i].node : i \in DOMAIN gen[g].tasks} = OwnTemplate(config)
            /\ NoDuplicates([i \in DOMAIN gen[g].tasks |-> gen[g].tasks[i].node])
            /\ \A s \in AllSections(config) :
                  /\ \A k1, k2 \in DOMAIN s.sections :
                        k1 < k2 =>
                            \A i \in TasksIn(g, s.sections[k1]) :
                                \A j \in TasksIn(g, s.sections[k2]) : i < j
                  /\ "template" \in DOMAIN s.scalars =>
                        \A i \in TasksIn(g, s) :
                            \A j \in DOMAIN gen[g].tasks :
                                gen[g].tasks[j].node = s.id => i <= j
            /\ \A i \in DOMAIN gen[g].log : gen[g].log[i] # << >> => i <= gen[g].ti
            /\ InLoop(g) =>
                  gen[g].fullname.name.base = ReportDict(g).template.base
            /\ \A p \in DOMAIN dir :
                  \E i \in DOMAIN gen[g].tasks :
                      /\ p.name.base = gen[g].tasks[i].report_dict.template.base
                      /\ firstGoodStamp(Database(gen[g].tasks[i].report_dict)) # NoStamp

\* C12 witness: a finished run over nested reports: the leaf under Outer
\* first, then Outer itself, then the report under After, then After.
C12_Witness ==
    \E g \in Gens :
        /\ gen[g].pc = "done"
        /\ [i \in DOMAIN gen[g].tasks |-> gen[g].tasks[i].node] = << 3, 1, 6, 5 >>
        /\ gen[g].ngen = << 1, 0, 1, 1 >>


\* The summarization mode the configuration gives each section below the
\* option section: the option the section declares, else the mode its name
\* stands for, else the mode of the section above it.
RECURSIVE ModePairs(_, _)
ModePairs(section, inherited) ==
    LET m == IF "summarize_by" \in DOMAIN section.scalars THEN section.scalars.summarize_by
             ELSE IF section.name \in {"SummaryByMonth", "SummaryByYear"} THEN section.name
             ELSE inherited
    IN  {<< section.id, m >>}
        \cup UNION {ModePairs(section.sections[k], m) : k \in DOMAIN section.sections}
ExpectedModes == UNION {ModePairs(config.sections[k], "None") : k \in DOMAIN config.sections}

\* C13: every report is generated in the mode its nearest section with a
\* summarize_by option or a summary name gives it, an explicit option
\* winning over the name of the section that declares it, and None when
\* there is neither; month mode gives whole calendar months, year mode whole
\* calendar years, any other mode the single window (start, stop).
C13_ModeFromNearestSection ==
    \A g \in Gens :
        Started(g) =>
            /\ \A i \in DOMAIN gen[g].tasks :
                  << gen[g].tasks[i].node, gen[g].tasks[i].report_dict.summarize_by >>
                      \in ExpectedModes
            /\ InLoop(g) =>
                  LET mode == ReportDict(g).summarize_by
                      spans == gen[g].spans
                  IN  IF mode = "SummaryByMonth"
                      THEN \A k \in DOMAIN spans :
                              /\ spans[k].start % MonthLen = 0
                              /\ spans[k].stop = spans[k].start + MonthLen
                      ELSE IF mode = "SummaryByYear"
                      THEN \A k \in DOMAIN spans :
                              /\ spans[k].start % (MonthLen * MonthsPerYear) = 0
                              /\ spans[k].stop = spans[k].start + MonthLen * MonthsPerYear
                      ELSE spans = << [start |-> firstGoodStamp(Database(ReportDict(g))),
                                       stop |-> gen[g].stop_ts] >>

\* C13 witness: under a section named SummaryByYear that sets summarize_by
\* to SummaryByMonth, a report is in its second month window.
C13_Witness ==
    \E g \in Gens :
        /\ InLoop(g) /\ gen[g].wi = 2
        /\ config.sections[1].name = "SummaryByYear"
        /\ "summarize_by" \in DOMAIN config.sections[1].scalars
        /\ ReportDict(g).summarize_by = "SummaryByMonth"
        /\ gen[g].spans[2].stop = gen[g].spans[2].start + MonthLen


\* The section with a given id.
SectionOf(id) == CHOOSE s \in AllSections(config) : s.id = id
\* Task i of g is bound to a database without a first valid timestamp.
NoData(g, i) == firstGoodStamp(Database(gen[g].tasks[i].report_dict)) = NoStamp
\* The sum of the counts of the tasks in a set of positions.
CountOver(g, positions) ==
    SumSeq([j \in DOMAIN gen[g].tasks |-> IF j \in positions THEN gen[g].ngen[j] ELSE 0])

\* C14: a report whose database has no first valid timestamp processes no
\* window (so records no label), writes no file, counts 0 and raises
\* nothing; generate returns for it the count of the reports under it; and a
\* run that ends has processed a window of every report that has data.
C14_NoStartSkipsReportOnly ==
    \A g \in Gens :
        Started(g) =>
            /\ \A i \in DOMAIN gen[g].tasks :
                  NoData(g, i) =>
                      /\ gen[g].log[i] = << >> /\ gen[g].ngen[i] = 0
                      /\ gen[g].ti = i => gen[g].pc \in {"initExtensions", "generate", "raised"}
                      /\ gen[g].ti = i /\ gen[g].pc = "raised" => gen[g].outcome # "raised"
                      /\ gen[g].ti = i => gen[g].outputted_dict = gen[g].labels0
                      /\ \A p \in DOMAIN dir :
                            p.name.base = gen[g].tasks[i].report_dict.template.base =>
                                \E j \in DOMAIN gen[g].tasks :
                                    /\ ~ NoData(g, j)
                                    /\ gen[g].tasks[j].report_dict.template.base = p.name.base
                      /\ gen[g].returned[i] # << >> =>
                            gen[g].returned[i] =
                                << CountOver(g, TasksIn(g, SectionOf(gen[g].tasks[i].node))) >>
            /\ gen[g].pc = "done" =>
                  \A j \in DOMAIN gen[g].tasks :
                      ~ NoData(g, j) /\ gen[g].tasks[j].report_dict.summarize_by = "None"
                          => gen[g].log[j] # << >>

\* C14 witness: a run has ended in which Outer, on the empty database, was
\* passed over after the report under it was written, and the reports after
\* it were written too.
C14_Witness ==
    \E g \in Gens :
        /\ gen[g].pc = "done" /\ firstGood # NoStamp
        /\ Len(gen[g].tasks) = 4 /\ NoData(g, 2)
        /\ gen[g].ngen = << 1, 0, 1, 1 >>
        /\ gen[g].returned[2] = << 1 >>
        /\ gen[g].log[2] = << >>


\* The windows of a log whose output was renamed onto its destination.
CountOk(log) == Cardinality({k \in DOMAIN log : log[k] = "ok"})
\* The same, over the tasks in a set of positions.
RenamedOver(g, positions) ==
    SumSeq([j \in DOMAIN gen[g].tasks |->
                IF j \in positions THEN CountOk(gen[g].log[j]) ELSE 0])
Destinations == {p \in DOMAIN dir : ~ p.tmp}

\* C15: the value generate returns for a section is the number of windows
\* of that section and of the sections under it whose output was renamed
\* onto its destination in this call (skipped and failed windows add
\* nothing), and run's total is that value for the option section; in a
\* first run into an empty directory it is the number of files written.
C15_CountIsSuccessfulRenames ==
    \A g \in Gens :
        Started(g) =>
            /\ \A i \in DOMAIN gen[g].tasks :
                  /\ gen[g].ngen[i] = CountOk(gen[g].log[i])
                  /\ gen[g].returned[i] # << >> =>
                        gen[g].returned[i] =
                            << RenamedOver(g, TasksIn(g, SectionOf(gen[g].tasks[i].node))) >>
            /\ gen[g].total # << >> =>
                  gen[g].total = << RenamedOver(g, DOMAIN gen[g].tasks) >>
            /\ gen[g].runs = 1 =>
                  Cardinality(Destinations) = RenamedOver(g, DOMAIN gen[g].tasks)

\* C15 witness: a run in which the window of Sub failed and the window of
\* After succeeded: generate returned 1 for After and 2 for the run.
C15_Witness ==
    \E g \in Gens :
        /\ gen[g].pc = "done" /\ Len(gen[g].tasks) = 4
        /\ gen[g].log[3] = << "failed" >> /\ gen[g].log[4] = << "ok" >>
        /\ gen[g].returned[4] = << 1 >>
        /\ gen[g].total = << 2 >>


\* C16: a report whose stop time is earlier than the first valid timestamp
\* of its database processes no window, whatever its mode.
C16_InvertedRangeYieldsNoWindow ==
    \A g \in Gens :
        InLoop(g) => firstGoodStamp(Database(ReportDict(g))) <= gen[g].stop_ts


\* Task i of g is a report of mode None without stale_age whose database
\* starts at or before the stop time of the run.
PlainTask(g, i) ==
    /\ Started(g) /\ i \in DOMAIN gen[g].tasks
    /\ gen[g].tasks[i].report_dict.summarize_by = "None"
    /\ "stale_age" \notin DOMAIN gen[g].tasks[i].report_dict
    /\ ~ NoData(g, i)
    /\ firstGoodStamp(Database(gen[g].tasks[i].report_dict)) <= Reference(g)

\* C17 (as claimed): such a task writes its file and returns 1.
C17_NoneModeCountsOne ==
    \A g \in Gens : \A i \in DOMAIN gen[g].tasks :
        PlainTask(g, i) /\ Finished(g, i) => gen[g].ngen[i] = 1

\* C17 (amended): such a task processes exactly one window, equal to
\* (first valid timestamp, stop time), and leaves the labels as they were;
\* when it has returned it has attempted that window once, and its count is
\* 1 with the complete text at the destination if the write succeeded and 0
\* if it failed.
C17_NoneModeOneWindow ==
    \A g \in Gens : \A i \in DOMAIN gen[g].tasks :
        PlainTask(g, i) =>
            /\ gen[g].ti = i /\ InGenerate(g) /\ gen[g].pc \notin {"generate", "done"} =>
                  /\ gen[g].spans =
                        << [start |-> firstGoodStamp(Database(gen[g].tasks[i].report_dict)),
                            stop |-> Reference(g)] >>
                  /\ gen[g].outputted_dict = gen[g].labels0
            /\ Finished(g, i) =>
                  /\ Len(gen[g].log[i]) = 1
                  /\ gen[g].log[i][1] \in {"ok", "failed"}
                  /\ gen[g].ngen[i] = IF gen[g].log[i][1] = "ok" THEN 1 ELSE 0
                  /\ gen[g].log[i][1] = "ok" =>
                        LET dest == FullName(getFileName(
                                        gen[g].tasks[i].report_dict.template,
                                        [start |-> 0, stop |-> 0]))
                        IN  Exists(dest) /\ inodes[dir[dest]].data = Text(g, gen[g].runs)

\* C17 witness: a report of mode None written after a monthly report of the
\* same run has recorded its labels.
C17_Witness ==
    \E g \in Gens : \E i \in DOMAIN gen[g].tasks :
        /\ PlainTask(g, i) /\ Finished(g, i)
        /\ gen[g].log[i] = << "ok" >>
        /\ Len(gen[g].outputted_dict.SummaryByMonth) >= 2


\* C18: a temporary file exists only while the window it belongs to is
\* being written: once a window has been processed, with or without
\* success, its temporary path does not exist, and no temporary file is
\* left between windows, after a run or after an exception.
C18_NoTemporaryFileLeft ==
    /\ \A g \in Gens :
          gen[g].pc = "loop" /\ gen[g].wi >= 1 /\ gen[g].outcome \in {"ok", "failed"}
              => ~ Exists(TmpName(gen[g].fullname))
    /\ \A p \in DOMAIN dir :
          p.tmp => \E g \in Gens : /\ gen[g].pc \in {"write", "rename", "unlink"}
                                   /\ p = TmpName(gen[g].fullname)

\* C18 witness: a run has ended in which a write failed after the temporary
\* file had received a part of the text.
C18_Witness ==
    \E g \in Gens :
        /\ gen[g].pc = "done"
        /\ \E i \in DOMAIN gen[g].log : "failed" \in Range(gen[g].log[i])
        /\ gen[g].off = 1
        /\ \A p \in DOMAIN dir : ~ p.tmp


\* The entries of a list option that are not blank, without the white
\* space around them.
NonBlank(list) ==
    LET kept == SelectSeq(list, LAMBDA x : x # " ")
    IN  [i \in DOMAIN kept |-> Strip(kept[i])]
\* The value of a list option of the option section, empty when missing.
ListOption(k) == IF k \in DOMAIN config.scalars THEN config.scalars[k] ELSE << >>

\* C19: while generate runs, the modern providers are those of search_list
\* if it is given, else the five default ones, followed by those of
\* search_list_additions, in order and without the blank entries, and the
\* legacy providers are those of search_list_extensions, none if it is
\* missing.
C19_ProviderLists ==
    \A g \in Gens :
        InGenerate(g) /\ gen[g].pc # "done" =>
            /\ gen[g].search_list_objs =
                  (IF "search_list" \in DOMAIN config.scalars
                   THEN NonBlank(config.scalars.search_list)
                   ELSE << "Almanac", "Station", "Stats", "UnitInfo", "Extras" >>)
                  \o NonBlank(ListOption("search_list_additions"))
            /\ gen[g].search_list_exts = NonBlank(ListOption("search_list_extensions"))

\* C19 witness: the default providers followed by an addition and two
\* legacy providers, in a window of a report.
C19_Witness ==
    \E g \in Gens :
        /\ InLoop(g)
        /\ gen[g].search_list_objs =
              << "Almanac", "Station", "Stats", "UnitInfo", "Extras", "user.A" >>
        /\ Len(gen[g].search_list_exts) = 2


\* C20: the step in which a window is skipped, by either rule, changes no
\* file and no directory entry (the destination keeps its content and its
\* modification time, no temporary file appears), composes no search list,
\* constructs and calls no provider and leaves the counts as they were; the
\* loop is then at its next window.
C20_SkippedWindowTouchesNothing ==
    [][\A g \in Gens :
          gen'[g].wi = gen[g].wi + 1
              /\ gen'[g].outcome \in {"skip_summary", "skip_stale"}
          => /\ dir' = dir /\ inodes' = inodes
             /\ gen'[g].searchList = gen[g].searchList
             /\ gen'[g].ctor = gen[g].ctor
             /\ gen'[g].ngen = gen[g].ngen
             /\ gen'[g].pc = "loop"]_vars

\* C20 witness: a window of a second run has just been skipped by the
\* staleness rule, its destination as the first run wrote it.
C20_Witness ==
    \E g \in Gens :
        /\ gen[g].pc = "loop" /\ gen[g].outcome = "skip_stale" /\ gen[g].runs = 2
        /\ Exists(gen[g].fullname)
        /\ inodes[dir[gen[g].fullname]].data = Text(g, 1)
        /\ gen[g].ngen[gen[g].ti] = 0


\* The label of a window in a summary mode.
LabelOf(mode, span) ==
    IF mode = "SummaryByMonth"
    THEN << LocalYear(span.start), "-", LocalMonth(span.start) >>
    ELSE << LocalYear(span.start) >>
\* Sequence a is the beginning of sequence b.
IsPrefix(a, b) == Len(a) <= Len(b) /\ \A k \in DOMAIN a : a[k] = b[k]
SummaryModes == {"SummaryByMonth", "SummaryByYear"}

\* What holds of the labels in every state of a run: none before generate
\* starts; the label of every window the loop of a summary report has
\* reached, skipped and failed ones included, and of every window of the
\* summary reports that have returned; and in the search list of a window
\* the label of that window.
LabelsRecorded(g) ==
    /\ gen[g].pc = "initExtensions" => gen[g].outputted_dict = EmptyLabels
    /\ InLoop(g) /\ ReportDict(g).summarize_by \in SummaryModes =>
          \A k \in 1..gen[g].wi :
              LabelOf(ReportDict(g).summarize_by, gen[g].spans[k])
                  \in Range(gen[g].outputted_dict[ReportDict(g).summarize_by])
    /\ InGenerate(g) =>
          \A i \in DOMAIN gen[g].tasks :
              LET rd == gen[g].tasks[i].report_dict
                  windows == spangen(rd.summarize_by, firstGoodStamp(Database(rd)),
                                     Reference(g))
              IN  i < gen[g].ti /\ rd.summarize_by \in SummaryModes /\ ~ NoData(g, i) =>
                      \A k \in DOMAIN windows :
                          LabelOf(rd.summarize_by, windows[k])
                              \in Range(gen[g].outputted_dict[rd.summarize_by])
    /\ BuiltSearchList(g) /\ ReportDict(g).summarize_by \in SummaryModes =>
          LabelOf(ReportDict(g).summarize_by, gen[g].spans[gen[g].wi])
              \in Range(gen[g].searchList[2][ReportDict(g).summarize_by])

\* C21: the label set is empty for both modes when a run starts, the second
\* run of a generator included, and only grows until the next run starts;
\* the label of a window of a summary report is recorded before the skip
\* rules, so the set holds the label of every window reached, whatever
\* became of it, and the set handed to the renderer holds the label of the
\* window rendered.
C21_LabelsGrowAndCoverEveryWindow ==
    /\ [](\A g \in Gens : LabelsRecorded(g))
    /\ [][\A g \in Gens :
            IF gen'[g].runs # gen[g].runs
            THEN gen'[g].outputted_dict = EmptyLabels
            ELSE /\ IsPrefix(gen[g].outputted_dict.SummaryByMonth,
                             gen'[g].outputted_dict.SummaryByMonth)
                 /\ IsPrefix(gen[g].outputted_dict.SummaryByYear,
                             gen'[g].outputted_dict.SummaryByYear)]_vars

\* C21 witness: in a second run, the window of a past month has just been
\* skipped and its label is in the set.
C21_Witness ==
    \E g \in Gens :
        /\ gen[g].runs = 2 /\ gen[g].pc = "loop" /\ gen[g].outcome = "skip_summary"
        /\ ReportDict(g).summarize_by = "SummaryByMonth"
        /\ LabelOf("SummaryByMonth", gen[g].spans[gen[g].wi])
              \in Range(gen[g].outputted_dict.SummaryByMonth)


\* What holds in every state: a window whose write has failed has its
\* destination as it was before the attempt, absent or with the same content
\* and modification time; and when the skip rules are applied to a window
\* whose write failed in the previous run, the destination bears no trace of
\* that run, and the window is attempted unless a rule skips it on the
\* strength of that older file.
FailureLeavesNoTrace(g) ==
    /\ InLoop(g) /\ gen[g].outcome = "failed" =>
          IF gen[g].pre = << >> THEN ~ Exists(gen[g].fullname)
          ELSE /\ Exists(gen[g].fullname)
               /\ inodes[dir[gen[g].fullname]].mtime = gen[g].pre[1].mtime
               /\ inodes[dir[gen[g].fullname]].data = gen[g].pre[1].data
    /\ JustDecided(g) /\ gen[g].fullname \in gen[g].failedBefore =>
          /\ gen[g].pre # << >> => gen[g].pre[1].data # Text(g, gen[g].runs - 1)
          /\ gen[g].pre = << >> => gen[g].pc = "searchList"
          /\ gen[g].outcome = "skip_stale" =>
                gen[g].t_now - gen[g].pre[1].mtime < ReportDict(g).stale_age

\* C22: a failed write does not count as a generation: the destination
\* changes, in content or in modification time, only in the step of a
\* rename onto it that succeeds, so a failed attempt leaves it as it was, and
\* the next run applies its skip rules to the state the failed run found.
C22_FailedWriteIsNotAGeneration ==
    /\ [](\A g \in Gens : FailureLeavesNoTrace(g))
    /\ [][\A p \in {q \in (DOMAIN dir) \cup (DOMAIN dir') : ~ q.tmp} :
            LET before == IF p \in DOMAIN dir THEN << inodes[dir[p]] >> ELSE << >>
                after == IF p \in DOMAIN dir' THEN << inodes'[dir'[p]] >> ELSE << >>
            IN  before # after =>
                    \E g \in Gens : /\ gen[g].pc = "rename" /\ gen[g].fullname = p
                                     /\ gen'[g].outcome = "ok"]_vars

\* C22 witness: in a second run, a report with a stale_age is attempted
\* again at the window whose write failed in the first run.
C22_Witness ==
    \E g \in Gens :
        /\ gen[g].runs = 2 /\ gen[g].pc = "searchList"
        /\ gen[g].fullname \in gen[g].failedBefore
        /\ "stale_age" \in DOMAIN ReportDict(g)
        /\ gen[g].pre = << >>


\* The template of g's current report names the period of its mode: YYYY
\* and MM for months, YYYY for years.
NamesPeriod(g) ==
    \/ ReportDict(g).summarize_by = "SummaryByMonth"
          /\ ReportDict(g).template.Y /\ ReportDict(g).template.M
    \/ ReportDict(g).summarize_by = "SummaryByYear" /\ ReportDict(g).template.Y

\* C23: for a monthly report whose template name holds YYYY and MM, and a
\* yearly one whose template name holds YYYY, two distinct windows of the
\* report have distinct destination paths; so the destination of the window
\* being processed is the destination of no other window of the report, and
\* what the skip rules read and what the rename replaces is its own output.
C23_WindowsHaveDistinctDestinations ==
    \A g \in Gens :
        InLoop(g) /\ NamesPeriod(g) =>
            /\ \A k1, k2 \in DOMAIN gen[g].spans :
                  k1 # k2 =>
                      FullName(getFileName(ReportDict(g).template, gen[g].spans[k1]))
                          # FullName(getFileName(ReportDict(g).template, gen[g].spans[k2]))
            /\ \A k \in DOMAIN gen[g].spans :
                  k # gen[g].wi =>
                      gen[g].fullname.name.yyyy # << LocalYear(gen[g].spans[k].start) >>
                      \/ ( ReportDict(g).summarize_by = "SummaryByMonth"
                           /\ gen[g].fullname.name.mm
                                 # << LocalMonth(gen[g].spans[k].start) >> )
            /\ gen[g].runs = 1 /\ gen[g].pc \in {"searchList", "template", "open", "write"} =>
                  ~ Exists(gen[g].fullname)

\* C23 witness: the third month of a monthly report, in the year after the
\* first two, is being written.
C23_Witness ==
    \E g \in Gens :
        /\ gen[g].pc = "write" /\ gen[g].wi = 3
        /\ ReportDict(g).summarize_by = "SummaryByMonth" /\ NamesPeriod(g)
        /\ LocalYear(gen[g].spans[3].start) # LocalYear(gen[g].spans[1].start)
        /\ LocalMonth(gen[g].spans[3].start) = LocalMonth(gen[g].spans[1].start)

====
